---- MODULE Spec2Model ----
(***************************************************************************)
(* Model of prt_phasecurve/phase_curve.py: wrap_phase_curve and            *)
(* calc_phase_curve.                                                       *)
(*                                                                         *)
(* Arithmetic is exact integer arithmetic in fixed units (floating-point   *)
(* rounding is not modelled):                                              *)
(*   mu values (mus, mu_p_mean, del_mu_p)        in units of 1/20          *)
(*   azimuth (phi_p_mean, del_phi_p)             in units of pi/10         *)
(*   phase                                       in units of 1/4 turn      *)
(*   direction components (x_p, y_p, z_p, point) in units of 1/100         *)
(*   I_use, dF, flux_arr                         times Den(mus), the least *)
(*       common multiple of the positive gaps of mus, so that the division *)
(*       of line 130 is exact.                                             *)
(* Python indices are kept 0-based; a Python list l is a sequence whose    *)
(* element l[i] is l[i+1] here.                                            *)
(***************************************************************************)
EXTENDS Integers, Sequences, FiniteSets

VARIABLES
    phases, lon, lat, mus, intensity,   \* arguments of wrap_phase_curve
    pc,                                 \* position in wrap_phase_curve / calc_phase_curve
    err,                                \* the exception raised, "" if none
    flat,                               \* _lon, _lat, _intensity after formatting
    mu_rad_bas,                         \* the interpolator instance
    rows,                               \* list built by the comprehension of line 61
    do_intp, i_intps,                   \* lists of lines 93-107
    M,                                  \* rotation matrix of lines 110-111
    flux_arr,                           \* accumulator of line 114
    iphi, itheta,                       \* loop counters of lines 116-117
    point, interp, I_use,               \* locals of the last loop body executed
    cell,                               \* <<iphi, itheta>> of the last loop body executed
    phase_curve                         \* the returned array

vars == <<phases, lon, lat, mus, intensity, pc, err, flat, mu_rad_bas, rows,
          do_intp, i_intps, M, flux_arr, iphi, itheta, point, interp, I_use,
          cell, phase_curve>>

inputs == <<phases, lon, lat, mus, intensity>>

-----------------------------------------------------------------------------
(* Bounds of the model *)

MaxMus == 3
MaxPhases == 2
MaxN == 2

(* Program constants *)

\* np.linspace(0.,1.,11) and np.linspace(0.,2.*np.pi,11): 11 borders
NBord == 11
\* scipy: thin-plate-spline default degree 1 in 3 dimensions needs 4 monomials
MinPoints == 4

-----------------------------------------------------------------------------
(* Small helpers *)

RECURSIVE Gcd(_, _)
Gcd(a, b) == IF b = 0 THEN a ELSE Gcd(b, a % b)

Lcm(a, b) == (a * b) \div Gcd(a, b)

RECURSIVE Prod(_)
Prod(s) == IF s = <<>> THEN 1 ELSE Head(s) * Prod(Tail(s))

SeqsUpTo(S, lo, hi) == UNION {[1..m -> S] : m \in lo..hi}

StrictlyIncreasing(s) == \A i \in 1..(Len(s)-1) : s[i] < s[i+1]

-----------------------------------------------------------------------------
(* numpy pieces *)

\* len(a.shape)
Rank(a) == Len(a.shape)

\* np.array(list of equal-length vectors): an empty list gives shape (0,)
NpArray(l) ==
    IF l = <<>> THEN [shape |-> <<0>>, data |-> <<>>]
    ELSE [shape |-> <<Len(l), Cardinality(DOMAIN l[1])>>, data |-> l]

\* np.zeros(n), 0-based
Zeros(n) == [w \in 0..(n-1) |-> 0]

MatMul(A, B) ==
    [i \in 1..3 |-> [j \in 1..3 |-> A[i][1]*B[1][j] + A[i][2]*B[2][j] + A[i][3]*B[3][j]]]

MatVec(A, v) ==
    [i \in 1..3 |-> A[i][1]*v[1] + A[i][2]*v[2] + A[i][3]*v[3]]

Transpose(A) == [i \in 1..3 |-> [j \in 1..3 |-> A[j][i]]]

Identity3 == <<<<1, 0, 0>>, <<0, 1, 0>>, <<0, 0, 1>>>>

-----------------------------------------------------------------------------
(* Quadrature grid, lines 85-91 *)

NCells == NBord - 1

\* mu_p_grid_bord = linspace(0,1,11)[::-1]
mu_p_grid_bord == [i \in 0..(NBord-1) |-> 20 - 2*i]
\* mu_p_mean = (bord[1:] + bord[:-1]) / 2
mu_p_mean == [i \in 0..(NCells-1) |-> (mu_p_grid_bord[i+1] + mu_p_grid_bord[i]) \div 2]
\* del_mu_p = -np.diff(bord)
del_mu_p == [i \in 0..(NCells-1) |-> -(mu_p_grid_bord[i+1] - mu_p_grid_bord[i])]

\* phi_p_grid_bord = linspace(0, 2 pi, 11)
phi_p_grid_bord == [i \in 0..(NBord-1) |-> 2*i]
phi_p_mean == [i \in 0..(NCells-1) |-> (phi_p_grid_bord[i+1] + phi_p_grid_bord[i]) \div 2]
del_phi_p == [i \in 0..(NCells-1) |-> phi_p_grid_bord[i+1] - phi_p_grid_bord[i]]

\* 100*cos and 100*sin of an angle a*pi/10, a odd in 1..19 (rounded)
Cos100(a) ==
    CASE a = 1 -> 95 [] a = 3 -> 59 [] a = 5 -> 0 [] a = 7 -> -59 [] a = 9 -> -95
      [] a = 11 -> -95 [] a = 13 -> -59 [] a = 15 -> 0 [] a = 17 -> 59 [] a = 19 -> 95
Sin100(a) ==
    CASE a = 1 -> 31 [] a = 3 -> 81 [] a = 5 -> 100 [] a = 7 -> 81 [] a = 9 -> 31
      [] a = 11 -> -31 [] a = 13 -> -81 [] a = 15 -> -100 [] a = 17 -> -81 [] a = 19 -> -31
\* 100*sqrt(1 - mu^2) for mu = m/20, m odd in 1..19 (rounded)
SqrtOneMinusSq100(m) ==
    CASE m = 19 -> 31 [] m = 17 -> 53 [] m = 15 -> 66 [] m = 13 -> 76 [] m = 11 -> 84
      [] m = 9 -> 89 [] m = 7 -> 94 [] m = 5 -> 97 [] m = 3 -> 99 [] m = 1 -> 100

\* lines 118-120: the local direction of a quadrature cell
x_p(ip, it) == (Cos100(phi_p_mean[ip]) * SqrtOneMinusSq100(mu_p_mean[it])) \div 100
y_p(ip, it) == (Sin100(phi_p_mean[ip]) * SqrtOneMinusSq100(mu_p_mean[it])) \div 100
z_p(ip, it) == 5 * mu_p_mean[it]
LocalDir(ip, it) == <<x_p(ip, it), y_p(ip, it), z_p(ip, it)>>

-----------------------------------------------------------------------------
(* Phase rotation, lines 109-111 *)

\* cos and sin of rot = -phase*2*pi, phase = q/4
CosRot(q) == CASE q % 4 = 0 -> 1 [] q % 4 = 1 -> 0 [] q % 4 = 2 -> -1 [] q % 4 = 3 -> 0
SinRot(q) == CASE q % 4 = 0 -> 0 [] q % 4 = 1 -> -1 [] q % 4 = 2 -> 0 [] q % 4 = 3 -> 1

AxisSwap == <<<<0, 0, 1>>, <<0, 1, 0>>, <<-1, 0, 0>>>>

RotX(q) == <<<<1, 0, 0>>, <<0, CosRot(q), -SinRot(q)>>, <<0, SinRot(q), CosRot(q)>>>>

RotMatrix_Swapped(q) == MatMul(RotX(q), AxisSwap)

RotMatrix(q) == MatMul(AxisSwap, RotX(q))

-----------------------------------------------------------------------------
(* The interpolator, lines 58, 113 and 125.                                *)
(* The sample intensities follow a law  I(s, w, d) = c0[w][d] + g . s  of  *)
(* the sample direction s.  A radial-basis fit with a degree-1 polynomial  *)
(* term reproduces such data exactly (all kernel weights are zero), so the *)
(* fitted state is the pair (c0, g) and a query evaluates it.              *)

LawC0(law, w, d) ==
    CASE law = "const" -> 3
      [] law = "bins"  -> 10*w + d*d + 1
      [] law = "dir"   -> 400 + w + 2*d

LawG(law) == IF law = "dir" THEN <<1, 2, 3>> ELSE <<0, 0, 0>>

NoField == [built |-> FALSE]

\* RBFInterpolator(y, d, smoothing=0.1) on n points with d of shape (n, N, D)
Fit(n, N, D, law) ==
    [built |-> TRUE,
     n     |-> n,
     c0    |-> [w \in 0..(N-1) |-> [d \in 0..(D-1) |-> LawC0(law, w, d)]],
     g     |-> LawG(law)]

\* mu_rad_bas(point)[0]: the (wavelength, mu-bin) tensor at one direction
Query(f, pt) ==
    [w \in DOMAIN f.c0 |->
        [d \in DOMAIN f.c0[w] |->
            f.c0[w][d] + f.g[1]*pt[1] + f.g[2]*pt[2] + f.g[3]*pt[3]]]

\* the interpolator after a query: __call__ leaves the instance as it was
AfterQuery_Refit(f, pt) == [f EXCEPT !.n = f.n + 1, !.g = <<pt[1], pt[2], pt[3]>>]

AfterQuery(f, pt) == f

-----------------------------------------------------------------------------
(* Bracket lookup, lines 93-107 *)

\* what one pass of the inner loop body appends (lines 98-107)
BracketEntry(musv, imu, jmu) ==
    LET m == mu_p_mean[imu]
        L == Len(musv)
    IN  IF m <= musv[1] THEN <<[do |-> FALSE, i |-> 0]>>
        ELSE IF m > musv[L] THEN <<[do |-> FALSE, i |-> L - 1]>>
        ELSE IF m > musv[jmu+1] /\ m <= musv[jmu+2] THEN <<[do |-> TRUE, i |-> jmu]>>
        ELSE <<>>

RECURSIVE BracketLoop(_, _)
\* the nested loops of lines 96-97, from flattened position t on
BracketLoop(musv, t) ==
    LET inner == Len(musv) - 1
    IN  IF t >= NCells * inner THEN <<>>
        ELSE BracketEntry(musv, t \div inner, t % inner) \o BracketLoop(musv, t + 1)

DoIntp(musv) == LET l == BracketLoop(musv, 0) IN [t \in 1..Len(l) |-> l[t].do]
IIntps(musv) == LET l == BracketLoop(musv, 0) IN [t \in 1..Len(l) |-> l[t].i]

-----------------------------------------------------------------------------
(* Mu-band interpolation and the cell's flux, lines 127-135 *)

RECURSIVE DenFrom(_, _)
DenFrom(musv, i) ==
    IF i >= Len(musv) THEN 1
    ELSE IF musv[i+1] > musv[i] THEN Lcm(musv[i+1] - musv[i], DenFrom(musv, i + 1))
    ELSE DenFrom(musv, i + 1)

\* common denominator of every division line 130 can make
Den(musv) == DenFrom(musv, 1)

\* lines 128-131, times Den(musv)
Interpolate(tensor, musv, j, m) ==
    [w \in DOMAIN tensor |->
        tensor[w][j] * Den(musv)
        + (tensor[w][j+1] - tensor[w][j]) * (m - musv[j+1])
          * (Den(musv) \div (musv[j+2] - musv[j+1]))]

\* line 133, times Den(musv)
TakeBin(tensor, musv, j) == [w \in DOMAIN tensor |-> tensor[w][j] * Den(musv)]

\* lines 127-133 with the lists of lines 93-107
IUse(tensor, musv, doi, ii, it) ==
    IF doi[it+1] THEN Interpolate(tensor, musv, ii[it+1], mu_p_mean[it])
    ELSE TakeBin(tensor, musv, ii[it+1])

\* the weight of line 135
CellWeight(ip, it) == mu_p_mean[it] * del_mu_p[it] * del_phi_p[ip]

\* line 135
DeltaF(iuse, ip, it) == [w \in DOMAIN iuse |-> iuse[w] * CellWeight(ip, it)]

\* line 136
Accumulate(acc, dF) == [w \in DOMAIN acc |-> acc[w] + dF[w]]

-----------------------------------------------------------------------------
(* Arguments the model is run on *)

MuVals == {-20, 3, 7, 11, 21}
PhaseVals == 0..3

\* lon / lat shapes: rank 0, 1, 2 and 3
LonLatShapes == {<<>>, <<1>>, <<2>>, <<4>>, <<6>>, <<2, 2>>, <<2, 3>>, <<2, 2, 1>>}

\* intensity shapes of rank 2 to 5 with N wavelengths and D mu-bins
IntensityShapes(N, D) ==
    {<<N, D>>, <<1, N, D>>, <<2, N, D>>, <<4, N, D>>, <<6, N, D>>,
     <<2, 2, N, D>>, <<2, 3, N, D>>, <<2, 2, 1, N, D>>}

Args(ps, lonShape, latShape, musv, intShape, law) ==
    [phases |-> ps, lon |-> [shape |-> lonShape], lat |-> [shape |-> latShape],
     mus |-> musv, intensity |-> [shape |-> intShape, law |-> law]]

\* a (2,3) grid, as the meshgrid of the module's own example
OnGrid(ps, musv, N, law) ==
    Args(ps, <<2, 3>>, <<2, 3>>, musv, <<2, 3, N, Len(musv)>>, law)

\* every mus over MuVals, increasing or not, one phase
MuInputs ==
    {OnGrid(<<1>>, musv, 1, law) :
        musv \in SeqsUpTo(MuVals, 1, MaxMus), law \in {"const", "bins"}}

\* every phase list, empty included
PhaseInputs ==
    {OnGrid(ps, <<-20, 7, 21>>, N, "dir") :
        ps \in SeqsUpTo(PhaseVals, 0, MaxPhases), N \in 1..MaxN}
    \cup
    {OnGrid(ps, <<3, 7, 11>>, 1, "const") : ps \in SeqsUpTo(PhaseVals, 0, MaxPhases)}

\* every combination of shapes
ShapeInputs ==
    {Args(<<1>>, ls, ts, <<-20, 21>>, is, "const") :
        ls \in LonLatShapes, ts \in LonLatShapes, is \in IntensityShapes(1, 2)}

Inputs == MuInputs \cup PhaseInputs \cup ShapeInputs

-----------------------------------------------------------------------------
(* wrap_phase_curve *)

NoResult == [shape |-> <<>>, data |-> <<>>]

Init ==
    /\ \E a \in Inputs :
        /\ phases = a.phases
        /\ lon = a.lon
        /\ lat = a.lat
        /\ mus = a.mus
        /\ intensity = a.intensity
    /\ pc = "format"
    /\ err = ""
    /\ flat = <<>>
    /\ mu_rad_bas = NoField
    /\ rows = <<>>
    /\ do_intp = <<>>
    /\ i_intps = <<>>
    /\ M = <<>>
    /\ flux_arr = <<>>
    /\ iphi = 0
    /\ itheta = 0
    /\ point = <<>>
    /\ interp = <<>>
    /\ I_use = <<>>
    /\ cell = <<>>
    /\ phase_curve = NoResult

calcLocals == <<do_intp, i_intps, M, flux_arr, iphi, itheta, point, interp, I_use, cell>>

Raise(e) ==
    /\ pc' = "raised"
    /\ err' = e

\* lines 30, 32 and 37, 39: the number of elements, kept by reshape
FlatLen(a) == Prod(a.shape)

\* lines 44, 46: the flattened shape (points, wavelengths, mu-bins)
FlatIntensity(a) ==
    IF Rank(a) = 4 THEN <<a.shape[1] * a.shape[2], a.shape[3], a.shape[4]>>
    ELSE a.shape

RanksAccepted_NoLonCheck == Rank(lat) \in {1, 2} /\ Rank(intensity) \in {3, 4}

\* the three rank tests of lines 29-48
RanksAccepted ==
    /\ Rank(lon) \in {1, 2}
    /\ Rank(lat) \in {1, 2}
    /\ Rank(intensity) \in {3, 4}

\* lines 28-48
FormatInput ==
    /\ pc = "format"
    /\ IF RanksAccepted
       THEN /\ flat' = [lon |-> FlatLen(lon),
                        lat |-> FlatLen(lat),
                        intensity |-> FlatIntensity(intensity)]
            /\ pc' = "build"
            /\ err' = err
       ELSE /\ Raise("IndexError")
            /\ flat' = flat
    /\ UNCHANGED <<inputs, mu_rad_bas, rows, calcLocals, phase_curve>>

\* lines 51-55 and np.array([x, y, z]) of line 58: the number of sample
\* directions, 0 when numpy cannot broadcast or stack the coordinates
NumDirections(nlon, nlat) ==
    IF nlon = nlat \/ nlon = 1 THEN nlat ELSE 0

\* numpy and RBFInterpolator take the arguments of line 58: the coordinates
\* stack, the first axis of the intensities is the number of directions, and
\* there are enough directions for the polynomial term
FitAccepted(n, sh) == n # 0 /\ n = sh[1] /\ n >= MinPoints

\* lines 50-58
BuildField ==
    /\ pc = "build"
    /\ LET n  == NumDirections(flat.lon, flat.lat)
           sh == flat.intensity
       IN  \/ /\ ~FitAccepted(n, sh)
              /\ Raise("ValueError")
              /\ mu_rad_bas' = mu_rad_bas
           \* one longitude broadcast over several latitudes: every direction
           \* lies in one plane, the system is singular in exact arithmetic and
           \* the solver may or may not notice
           \/ /\ FitAccepted(n, sh)
              /\ flat.lon # flat.lat
              /\ Raise("LinAlgError")
              /\ mu_rad_bas' = mu_rad_bas
           \/ /\ FitAccepted(n, sh)
              /\ mu_rad_bas' = Fit(n, sh[2], sh[3], intensity.law)
              /\ pc' = IF Len(phases) = 0 THEN "assemble" ELSE "setup"
              /\ err' = err
    /\ UNCHANGED <<inputs, flat, rows, calcLocals, phase_curve>>

-----------------------------------------------------------------------------
(* calc_phase_curve(phases[Len(rows)], mus, mu_rad_bas) *)

phase == phases[Len(rows) + 1]

\* lines 85-111
CalcSetup ==
    /\ pc = "setup"
    /\ do_intp' = DoIntp(mus)
    /\ i_intps' = IIntps(mus)
    /\ M' = RotMatrix(phase)
    /\ pc' = "probe"
    /\ UNCHANGED <<inputs, err, flat, mu_rad_bas, rows, flux_arr, iphi, itheta,
                   point, interp, I_use, cell, phase_curve>>

\* lines 113-114
ProbeWavelengths ==
    /\ pc = "probe"
    /\ LET Nlambda == Cardinality(DOMAIN Query(mu_rad_bas, <<0, 0, 0>>))
       IN  flux_arr' = Zeros(Nlambda)
    /\ mu_rad_bas' = AfterQuery(mu_rad_bas, <<0, 0, 0>>)
    /\ iphi' = 0
    /\ itheta' = 0
    /\ pc' = "cells"
    /\ UNCHANGED <<inputs, err, flat, rows, do_intp, i_intps, M,
                   point, interp, I_use, cell, phase_curve>>

\* lines 118-136: one pass of the loop body
CellStep ==
    /\ pc = "cells"
    /\ LET R == MatVec(M, LocalDir(iphi, itheta))
           t == Query(mu_rad_bas, R)
       IN  /\ point' = R
           /\ interp' = t
           /\ mu_rad_bas' = AfterQuery(mu_rad_bas, R)
           /\ cell' = <<iphi, itheta>>
           /\ IF itheta >= Len(do_intp)
              THEN \* do_intp[itheta]: list index out of range
                   /\ Raise("IndexError")
                   /\ UNCHANGED <<I_use, flux_arr, iphi, itheta>>
              ELSE LET u == IUse(t, mus, do_intp, i_intps, itheta)
                   IN  /\ I_use' = u
                       /\ flux_arr' = Accumulate(flux_arr, DeltaF(u, iphi, itheta))
                       /\ itheta' = IF itheta = NCells - 1 THEN 0 ELSE itheta + 1
                       /\ iphi' = IF itheta = NCells - 1 THEN iphi + 1 ELSE iphi
                       /\ pc' = IF itheta = NCells - 1 /\ iphi = NCells - 1
                                THEN "return" ELSE "cells"
                       /\ err' = err
    /\ UNCHANGED <<inputs, flat, rows, do_intp, i_intps, M, phase_curve>>

CollectRow_Prepend == <<flux_arr>> \o rows

\* the comprehension of line 61 with one more result
CollectRow == Append(rows, flux_arr)

\* line 138 and the comprehension of line 61 taking the result
ReturnFlux ==
    /\ pc = "return"
    /\ rows' = CollectRow
    /\ pc' = IF Len(rows) + 1 = Len(phases) THEN "assemble" ELSE "setup"
    /\ UNCHANGED <<inputs, err, flat, mu_rad_bas, calcLocals, phase_curve>>

\* np.array(...) of line 61 and line 63
Assemble ==
    /\ pc = "assemble"
    /\ phase_curve' = NpArray(rows)
    /\ pc' = "returned"
    /\ UNCHANGED <<inputs, err, flat, mu_rad_bas, rows, calcLocals>>

Next ==
    \/ FormatInput
    \/ BuildField
    \/ CalcSetup
    \/ ProbeWavelengths
    \/ CellStep
    \/ ReturnFlux
    \/ Assemble

Spec == Init /\ [][Next]_vars

-----------------------------------------------------------------------------
(* Properties *)

\* a loop body ran to its end: point, interp and I_use are those of `cell`
CellDone == cell # <<>> /\ I_use # <<>> /\ err = ""

\* the quadrature mu of the last cell
CellMu == mu_p_mean[cell[2]]

\* the 0-based j with mus[j] < m <= mus[j+1]
BracketOf(musv, m) ==
    CHOOSE j \in 0..(Len(musv) - 2) : musv[j+1] < m /\ m <= musv[j+2]

\* C1: for strictly increasing mus, a cell whose mu lies in (mus[0], mus[last]]
\* uses the linear interpolation between the bracketing pair of mu-bins,
\* whether or not other cells of the call are clamped.
C1_InteriorIsInterpolated ==
    (CellDone /\ StrictlyIncreasing(mus)
        /\ mus[1] < CellMu /\ CellMu <= mus[Len(mus)])
    => I_use = Interpolate(interp, mus, BracketOf(mus, CellMu), CellMu)

\* C2: for strictly increasing mus of any length >= 1, a cell with
\* mu <= mus[0] uses the first mu-bin as it is, a cell with mu > mus[last]
\* the last mu-bin as it is, and the loop raises no error.
C2_OutsideIsClamped ==
    StrictlyIncreasing(mus)
    => /\ ~(pc = "raised" /\ cell # <<>>)
       /\ (CellDone /\ CellMu <= mus[1]) => I_use = TakeBin(interp, mus, 0)
       /\ (CellDone /\ CellMu > mus[Len(mus)])
            => I_use = TakeBin(interp, mus, Len(mus) - 1)

\* dF of one cell for phase q, computed from the arguments alone
CellFlux(f, q, doi, ii, ip, it) ==
    LET t == Query(f, MatVec(RotMatrix(q), LocalDir(ip, it)))
    IN  DeltaF(IUse(t, mus, doi, ii, it), ip, it)

RECURSIVE RingFlux(_, _, _, _, _, _)
\* the sum of dF over the cells (ip, 0) .. (ip, n-1)
RingFlux(f, q, doi, ii, ip, n) ==
    IF n = 0 THEN Zeros(Cardinality(DOMAIN f.c0))
    ELSE Accumulate(RingFlux(f, q, doi, ii, ip, n - 1),
                    CellFlux(f, q, doi, ii, ip, n - 1))

RECURSIVE DiskFlux(_, _, _, _, _)
\* the sum of dF over the azimuth bins 0 .. n-1
DiskFlux(f, q, doi, ii, n) ==
    IF n = 0 THEN Zeros(Cardinality(DOMAIN f.c0))
    ELSE Accumulate(DiskFlux(f, q, doi, ii, n - 1),
                    RingFlux(f, q, doi, ii, n - 1, NCells))

\* the flux vector of one phase
FluxOf(q) ==
    LET doi == DoIntp(mus)
        ii  == IIntps(mus)
    IN  DiskFlux(mu_rad_bas, q, doi, ii, NCells)

\* C3: the returned rows are in input phase order, row i being the flux
\* vector of phases[i] alone; and whether a phase computation raises instead
\* is decided by mus alone, in the first phase, so no order of the phase
\* list returns rows where another raises.
C3_RowsFollowPhases ==
    /\ pc = "returned"
        => /\ Len(phase_curve.data) = Len(phases)
           /\ \A i \in 1..Len(phases) : phase_curve.data[i] = FluxOf(phases[i])
    /\ (pc = "raised" /\ cell # <<>>)
        => /\ rows = <<>>
           /\ Len(DoIntp(mus)) < NCells
    /\ (pc = "returned" /\ Len(phases) > 0) => Len(DoIntp(mus)) >= NCells

C3_Witness ==
    /\ pc = "returned"
    /\ Len(phases) = 2
    /\ phases[1] # phases[2]
    /\ phase_curve.data[1] # phase_curve.data[2]

\* C4: the returned array is 2-D with len(phases) rows and N columns, also
\* for a phase list of length 0 or 1.
C4_ShapeIsPhasesByWavelengths ==
    pc = "returned" => phase_curve.shape = <<Len(phases), flat.intensity[2]>>

BadRank ==
    \/ Rank(lon) \notin {1, 2}
    \/ Rank(lat) \notin {1, 2}
    \/ Rank(intensity) \notin {3, 4}

\* C5: a lon or lat of rank other than 1 or 2, or an intensity of rank other
\* than 3 or 4, raises the invalid-shape error (IndexError) before the
\* field is built and before any phase is computed; nothing is returned.
C5_BadRankRaises ==
    BadRank
    => /\ pc = "format" \/ (pc = "raised" /\ err = "IndexError")
       /\ mu_rad_bas = NoField
       /\ flat = <<>>
       /\ rows = <<>>
       /\ cell = <<>>
       /\ phase_curve = NoResult

C5_Witness ==
    /\ pc = "raised"
    /\ err = "IndexError"
    /\ Rank(lon) = 3
    /\ Rank(lat) \in {1, 2}
    /\ Rank(intensity) \in {3, 4}

SizesDiffer ==
    /\ ~BadRank
    /\ \/ FlatLen(lon) # FlatLen(lat)
       \/ FlatLen(lat) # FlatIntensity(intensity)[1]

\* C6: when the flattened numbers of surface points of lon, lat and
\* intensity differ, the call fails: the field is never built and nothing
\* is computed from the inconsistent sizes.
C6_SizeMismatchRejected ==
    SizesDiffer
    => /\ pc \in {"format", "build", "raised"}
       /\ mu_rad_bas = NoField
       /\ phase_curve = NoResult

\* C7: when mus is not strictly increasing the computation fails before
\* any flux is produced.
C7_NonMonotonicRejected ==
    ~StrictlyIncreasing(mus)
    => /\ I_use = <<>>
       /\ rows = <<>>
       /\ phase_curve = NoResult

\* the field returns c for every direction, wavelength and mu-bin
FieldIsConstant(f, c) ==
    /\ f.built
    /\ f.g = <<0, 0, 0>>
    /\ \A w \in DOMAIN f.c0 : \A d \in DOMAIN f.c0[w] : f.c0[w][d] = c

RECURSIVE WeightBefore(_)
\* sum of mu-center * mu-width * azimuth-width over the cells before
\* flattened cell c = iphi*NCells + itheta
WeightBefore(c) ==
    IF c = 0 THEN 0
    ELSE mu_p_mean[(c-1) % NCells] * del_mu_p[(c-1) % NCells] * del_phi_p[(c-1) \div NCells]
         + WeightBefore(c - 1)

HemisphereSum == WeightBefore(NCells * NCells)

\* the value an isotropic field returns
IsoValue(f) == f.c0[0][0]

Isotropic == mu_rad_bas.built /\ FieldIsConstant(mu_rad_bas, IsoValue(mu_rad_bas))

\* the accumulator holds c times the weight of the cells done so far, and a
\* finished flux vector is c times the weight of all cells
IsotropicFluxValues ==
    LET c == IsoValue(mu_rad_bas)
    IN  /\ (pc = "cells" \/ pc = "return")
            => \A w \in DOMAIN flux_arr :
                flux_arr[w] = c * Den(mus) * WeightBefore(iphi * NCells + itheta)
        /\ \A i \in 1..Len(rows) : \A w \in DOMAIN rows[i] :
                rows[i][w] = c * Den(mus) * HemisphereSum
        /\ pc = "returned"
            => \A i \in 1..Len(phases) : \A w \in 0..(flat.intensity[2] - 1) :
                phase_curve.data[i][w] = c * Den(mus) * HemisphereSum

\* C8: with a field that returns c everywhere and strictly increasing mus,
\* calc_phase_curve computes a flux for every phase: the accumulator starts
\* at zero, each of the 100 cells adds c times its
\* mu-center * mu-width * azimuth-width once, and the flux of every phase is
\* c times the sum over all cells.
C8_IsotropicFlux ==
    (Isotropic /\ StrictlyIncreasing(mus))
    => /\ pc # "raised"
       /\ IsotropicFluxValues

\* the values of C8 wherever mus has at least two entries
IsotropicFluxFromTwoBins ==
    (Isotropic /\ StrictlyIncreasing(mus) /\ Len(mus) >= 2)
    => /\ pc # "raised"
       /\ IsotropicFluxValues

\* C9: the combined matrix is orthonormal and, whatever the phase, the
\* polar component of the queried direction is -x_p: the phase only turns
\* the direction about the z axis.
C9_PhaseRotatesAboutPolarAxis ==
    /\ M # <<>>
        => /\ M[3] = <<-1, 0, 0>>
           /\ MatMul(M, Transpose(M)) = Identity3
    /\ cell # <<>>
        => /\ point[3] = -x_p(cell[1], cell[2])
           /\ point[1] * point[1] + point[2] * point[2]
                = y_p(cell[1], cell[2]) * y_p(cell[1], cell[2])
                  + z_p(cell[1], cell[2]) * z_p(cell[1], cell[2])

C9_Witness ==
    /\ cell # <<>>
    /\ M # AxisSwap
    /\ x_p(cell[1], cell[2]) # 0
    /\ point[3] = -x_p(cell[1], cell[2])
    /\ point # MatVec(AxisSwap, LocalDir(cell[1], cell[2]))

\* C10: the field is built once, from the full batch, before the first
\* phase; no later step changes it.
C10_FieldBuiltOnceThenReadOnly ==
    /\ [](pc \in {"setup", "probe", "cells", "return", "assemble", "returned"}
            => mu_rad_bas.built)
    /\ [][/\ mu_rad_bas.built => mu_rad_bas' = mu_rad_bas
          /\ (~mu_rad_bas.built /\ mu_rad_bas'.built)
                => /\ pc = "build"
                   /\ rows = <<>> /\ cell = <<>>
                   /\ mu_rad_bas'.n = flat.intensity[1]]_vars

C10_Witness ==
    /\ pc = "returned"
    /\ Len(rows) = 2
    /\ mu_rad_bas = Fit(flat.intensity[1], flat.intensity[2], flat.intensity[3],
                        intensity.law)

====
